---- MODULE Spec2Model ----
(***************************************************************************)
(* Model of Empirical's Ptr.h (src/unnamed/part_002): the PtrInfo record,  *)
(* the PtrTracker singleton and the EMP_TRACK_MEM variant of emp::Ptr,     *)
(* with the variant without EMP_TRACK_MEM run alongside on the same        *)
(* operations (notrack).                                                   *)
(*                                                                         *)
(* A failed emp_assert aborts the process: a method's statements before    *)
(* the failing assert have run and those after it have not; the aborted    *)
(* process leaves no tracker and no Ptr, only the assert's message (err)   *)
(* and the operation it failed in (errOp), and takes no step after.        *)
(* The process can also exit: ~PtrTracker scans the records and either     *)
(* fails an assert or leaves its two figures (report).                     *)
(* Undefined behaviour (the element construction of NewArray outside the   *)
(* block) is a choice between going on unharmed and an execution that is   *)
(* followed no further.                                                    *)
(***************************************************************************)
EXTENDS Integers, Sequences, FiniteSets, TLC

\* ---------------------------------------------------------------- bounds
NumAddr     == 1      \* non-null addresses are 1..NumAddr
NumHandles  == 3      \* Ptr objects that can be alive at once
MaxRecords  == 2      \* cap on PtrTracker::id_info.size()
MaxArrayLen == 2      \* array_size arguments are 1..MaxArrayLen
WordBits    == 4      \* width of size_t in the model (64 in the build)
MaxSizeof   == 8      \* pointee sizes for Hash() are 1..MaxSizeof

\* ------------------------------------------------------- program constants
Null     == 0         \* nullptr
NoId     == -1        \* (size_t) -1, the id of an untracked Ptr
SizeofT  == 4         \* sizeof(TYPE) of the one pointee type of the model

Addr     == 1..NumAddr
AddrOrNull == Addr \cup {Null}
Handles  == 1..NumHandles
ArrayLens == 1..MaxArrayLen

\* size_t arithmetic: values are 0 .. SizeT - 1 and products wrap around.
SizeT == 2 ^ WordBits

Mul(x, y) == (x * y) % SizeT

\* The positions operator[] is called with: those of the arrays and just
\* beyond, and the least one whose byte offset does not fit in a size_t.
WrapPos == (SizeT + SizeofT - 1) \div SizeofT

IndexPos == (0..MaxArrayLen) \cup {WrapPos}

VARIABLES
  id_info,   \* PtrTracker::id_info : sequence of PtrInfo, id i at index i+1
  ptr_id,    \* PtrTracker::ptr_id  : function from tracked addresses to ids
  ptr,       \* ptr[h] : Ptr::ptr of handle h
  id,        \* id[h]  : Ptr::id of handle h
  live,      \* live[h]: handle h has been constructed and not destroyed
  freed,     \* freed[a]: how many times delete or delete[] ran on address a
  err,       \* "" while running, else the message of the failed assert
  errOp,     \* "" while running, else the operation whose assert failed
  report,    \* << >> until ~PtrTracker prints <<total, remain>> at exit
  notrack,   \* the same program built without EMP_TRACK_MEM: its tracker,
             \* the ptr of each handle, and the frees per address
  hash       \* << >>, or the last call of Hash(): the handle, sizeof(TYPE)
             \* and the value returned in either build

vars ==
  <<id_info, ptr_id, ptr, id, live, freed, err, errOp, report, notrack, hash>>

\* The part of the state the methods of PtrInfo, PtrTracker and Ptr act on.
Cur ==
  [id_info |-> id_info, ptr_id |-> ptr_id, ptr |-> ptr, id |-> id,
   freed |-> freed, err |-> err]

\* The process is running: no assert has failed and it has not exited.
Running == err = "" /\ report = << >>

\* The operation named in the abort's diagnostics; to be used after Commit.
Blame(name) == IF err' = "" THEN "" ELSE name

\* emp_assert(cond, msg): abort with msg unless cond (no-op once aborted).
Check(M, cond, msg) ==
  IF M.err # "" \/ cond THEN M ELSE [M EXCEPT !.err = msg]

\* Undefined behaviour that does harm: from here on the execution is not the
\* program's any more, and it is followed no further (no-op once aborted).
Undefined(M, intact, what) ==
  IF M.err # "" \/ intact THEN M ELSE [M EXCEPT !.err = what]

\* ------------------------------------------------------------------ Log2
RECURSIVE Log2(_)

\* A variant that yields the logarithm of x - 1.
Log2_OfPredecessor(x) ==
  IF x <= 2 THEN 0
  ELSE CHOOSE k \in 0..x : 2 ^ k <= x - 1 /\ x - 1 < 2 ^ (k + 1)

Log2(x) == IF x <= 1 THEN 0 ELSE Log2(x \div 2) + 1

\* (size_t) p >> shift
ShiftRight(p, shift) == p \div (2 ^ shift)

\* ---------------------------------------------------------------- PtrInfo
\* Mutant: a new record counts no handle yet.
PtrInfo_CountZero(p) ==
  [ptr |-> p, count |-> 0, status |-> "ACTIVE", array_bytes |-> 0]

PtrInfo(p) == [ptr |-> p, count |-> 1, status |-> "ACTIVE", array_bytes |-> 0]

PtrInfo_IsActive(info) == info.status # "DELETED"

PtrInfo_IsArray(info) == info.status = "ARRAY"

PtrInfo_SetArray(info, bytes) ==
  [info EXCEPT !.array_bytes = bytes, !.status = "ARRAY"]

\* Mutant of the guard of PtrInfo::Inc: no guard at all.
PtrInfo_IncOk_Any(info) == TRUE

\* The guard of PtrInfo::Inc.
PtrInfo_IncOk(info) == info.status # "DELETED"

PtrInfo_Inc(M, i) ==
  LET M1 == Check(M, PtrInfo_IncOk(M.id_info[i + 1]), "Incrementing deleted pointer!")
  IN  IF M1.err # "" THEN M1
      ELSE [M1 EXCEPT !.id_info[i + 1].count = @ + 1]

\* Mutants of the guard of PtrInfo::Dec: no exemption for a deleted record;
\* no guard at all.
PtrInfo_DecOk_Strict(info) == info.count > 1

PtrInfo_DecOk_Any(info) == TRUE

\* The guard of PtrInfo::Dec.
PtrInfo_DecOk(info) == info.count > 1 \/ info.status = "DELETED"

PtrInfo_Dec(M, i) ==
  LET M1 == Check(M, PtrInfo_DecOk(M.id_info[i + 1]),
                  "Removing last reference to owned Ptr!")
  IN  IF M1.err # "" THEN M1
      ELSE [M1 EXCEPT !.id_info[i + 1].count = @ - 1]

\* Mutant: marking deleted also drops the references.
PtrInfo_MarkDeleted_ZeroCount(M, i) ==
  LET M1 == Check(M, M.id_info[i + 1].status # "DELETED",
                  "Deleting same emp::Ptr a second time!")
  IN  IF M1.err # "" THEN M1
      ELSE [M1 EXCEPT !.id_info[i + 1].status = "DELETED",
                      !.id_info[i + 1].count = 0]

PtrInfo_MarkDeleted(M, i) ==
  LET M1 == Check(M, M.id_info[i + 1].status # "DELETED",
                  "Deleting same emp::Ptr a second time!")
  IN  IF M1.err # "" THEN M1
      ELSE [M1 EXCEPT !.id_info[i + 1].status = "DELETED"]

\* ------------------------------------------------------------- PtrTracker
HasPtr(M, p) == p \in DOMAIN M.ptr_id

GetCurID(M, p) == M.ptr_id[p]

GetNumIDs(M) == Len(M.id_info)

GetArrayBytes(M, i) == M.id_info[i + 1].array_bytes

\* Mutant: the status is that of the current record of the id's address.
IsDeleted_OfAddress(M, i) ==
  IF i = NoId THEN FALSE
  ELSE ~PtrInfo_IsActive(M.id_info[M.ptr_id[M.id_info[i + 1].ptr] + 1])

IsDeleted(M, i) ==
  IF i = NoId THEN FALSE ELSE ~PtrInfo_IsActive(M.id_info[i + 1])

IsActive(M, p) ==
  IF ~HasPtr(M, p) THEN FALSE ELSE PtrInfo_IsActive(M.id_info[GetCurID(M, p) + 1])

IsArrayID(M, i) == PtrInfo_IsArray(M.id_info[i + 1])

GetIDCount(M, i) == M.id_info[i + 1].count

\* Mutant: the id is read after the emplace_back, one too high.
Emplace_OffByOne(M, p) ==
  [M EXCEPT !.id_info = Append(@, PtrInfo(p)),
            !.ptr_id  = [x \in DOMAIN @ \cup {p} |->
                           IF x = p THEN Len(M.id_info) + 1 ELSE @[x]]]

\* id_info.emplace_back(ptr); ptr_id[ptr] = id;
Emplace(M, p) ==
  [M EXCEPT !.id_info = Append(@, PtrInfo(p)),
            !.ptr_id  = [x \in DOMAIN @ \cup {p} |->
                           IF x = p THEN Len(M.id_info) ELSE @[x]]]

\* Mutant: no assert that the pointer is not stored Active already.
New_NoCheck(M, p) ==
  LET M1 == Check(M, p # Null, "Cannot track a null pointer.")
  IN  IF M1.err # "" THEN M1
      ELSE [M1 EXCEPT !.id_info = Append(@, PtrInfo(p)),
                      !.ptr_id  = [x \in DOMAIN @ \cup {p} |->
                                     IF x = p THEN Len(M.id_info) ELSE @[x]]]

\* Mutant: a pointer seen before gets its old record back, made Active again.
New_Reuse(M, p) ==
  LET M1 == Check(M, p # Null, "Cannot track a null pointer.")
      M2 == Check(M1, ~(p \in DOMAIN M1.ptr_id)
                      \/ M1.id_info[M1.ptr_id[p] + 1].status = "DELETED",
                  "New: pointer already stored and not deleted")
  IN  IF M2.err # "" THEN M2
      ELSE IF p \in DOMAIN M2.ptr_id
        THEN [M2 EXCEPT !.id_info[M2.ptr_id[p] + 1] = PtrInfo(p)]
      ELSE [M2 EXCEPT !.id_info = Append(@, PtrInfo(p)),
                      !.ptr_id  = [x \in DOMAIN @ \cup {p} |->
                                     IF x = p THEN Len(M.id_info) ELSE @[x]]]

\* Mutant: the record is stored before the assert on the stored pointer.
New_CheckAfter(M, p) ==
  LET M1 == Check(M, p # Null, "Cannot track a null pointer.")
      ok == ~(p \in DOMAIN M1.ptr_id)
            \/ M1.id_info[M1.ptr_id[p] + 1].status = "DELETED"
  IN  IF M1.err # "" THEN M1
      ELSE Check([M1 EXCEPT !.id_info = Append(@, PtrInfo(p)),
                            !.ptr_id  = [x \in DOMAIN @ \cup {p} |->
                                           IF x = p THEN Len(M.id_info) ELSE @[x]]],
                 ok, "New: pointer already stored and not deleted")

\* PtrTracker::New; the id it returns is GetNumIDs of the tracker it is given.
New(M, p) ==
  LET M1 == Check(M, p # Null, "Cannot track a null pointer.")
      M2 == Check(M1, ~HasPtr(M1, p) \/ IsDeleted(M1, GetCurID(M1, p)),
                  "New: pointer already stored and not deleted")
  IN  IF M2.err # "" THEN M2 ELSE Emplace(M2, p)

\* Mutant: the array flag is set through the pointer, on every record of it.
NewArray_AllOfPtr(M, p, array_bytes) ==
  LET M1 == New(M, p)
  IN  IF M1.err # "" THEN M1
      ELSE [M1 EXCEPT !.id_info = [k \in DOMAIN @ |->
              IF @[k].ptr = p THEN PtrInfo_SetArray(@[k], array_bytes) ELSE @[k]]]

NewArray(M, p, array_bytes) ==
  LET M1 == New(M, p)
  IN  IF M1.err # "" THEN M1
      ELSE [M1 EXCEPT !.id_info[Len(M.id_info) + 1] = PtrInfo_SetArray(@, array_bytes)]

\* Mutant: no early return for the id of an untracked handle.
IncID_NoSentinel(M, i) ==
  IF M.err # "" THEN M
  ELSE IF i \notin 0..(Len(M.id_info) - 1)
    THEN Check(M, FALSE, "id_info index out of range")
  ELSE PtrInfo_Inc(M, i)

IncID(M, i) ==
  IF M.err # "" \/ i = NoId THEN M ELSE PtrInfo_Inc(M, i)

\* Mutant: no assert that the count is above zero.
DecID_NoZeroCheck(M, i) ==
  IF M.err # "" \/ i = NoId THEN M ELSE PtrInfo_Dec(M, i)

DecID(M, i) ==
  IF M.err # "" \/ i = NoId THEN M
  ELSE PtrInfo_Dec(Check(M, M.id_info[i + 1].count > 0,
                         "Decrementing Ptr, but already zero!"), i)

\* Mutant: a record can be marked deleted again.
MarkDeleted_Again(M, i) ==
  IF M.err # "" THEN M ELSE [M EXCEPT !.id_info[i + 1].status = "DELETED"]

\* A variant that also drops the address of the record from ptr_id.
MarkDeleted_Erasing(M, i) ==
  IF M.err # "" THEN M
  ELSE LET M1 == PtrInfo_MarkDeleted(M, i)
           p  == M.id_info[i + 1].ptr
       IN  IF M1.err # "" THEN M1
           ELSE [M1 EXCEPT !.ptr_id = [x \in DOMAIN @ \ {p} |-> @[x]]]

MarkDeleted(M, i) ==
  IF M.err # "" THEN M ELSE PtrInfo_MarkDeleted(M, i)

\* ---------------------------------------------------- Ptr (EMP_TRACK_MEM)
\* Assignments to the members of handle h, skipped once aborted.
SetPtr(M, h, p) == IF M.err # "" THEN M ELSE [M EXCEPT !.ptr[h] = p]
SetId(M, h, i)  == IF M.err # "" THEN M ELSE [M EXCEPT !.id[h] = i]

\* The build without EMP_TRACK_MEM before the first operation.
NoTrackInit ==
  [id_info |-> << >>, ptr_id |-> << >>,
   ptr |-> [h \in Handles |-> Null], freed |-> [a \in Addr |-> 0]]

Init ==
  /\ id_info = << >>
  /\ ptr_id = << >>
  /\ ptr = [h \in Handles |-> Null]
  /\ id = [h \in Handles |-> NoId]
  /\ live = [h \in Handles |-> FALSE]
  /\ freed = [a \in Addr |-> 0]
  /\ err = ""
  /\ errOp = ""
  /\ report = << >>
  /\ notrack = NoTrackInit
  /\ hash = << >>

\* The slot a newly constructed Ptr takes: the lowest one not alive (a
\* destroyed Ptr's slot holds the members of a default Ptr).
IsFreeSlot(h) == ~live[h] /\ \A g \in Handles : g < h => live[g]

\* The state an operation that ended in M leaves.  A failed emp_assert aborts
\* the process: the tracker and every Ptr are gone with it, and what is left is
\* the diagnostic.
Commit(M) ==
  /\ id_info' = IF M.err = "" THEN M.id_info ELSE << >>
  /\ ptr_id' = IF M.err = "" THEN M.ptr_id ELSE << >>
  /\ ptr' = IF M.err = "" THEN M.ptr ELSE [h \in Handles |-> Null]
  /\ id' = IF M.err = "" THEN M.id ELSE [h \in Handles |-> NoId]
  /\ freed' = IF M.err = "" THEN M.freed ELSE [a \in Addr |-> 0]
  /\ err' = M.err
  /\ report' = report
  /\ hash' = hash

\* The objects alive after an operation that leaves them as l; to be used
\* after Commit.
Alive(l) == IF err' = "" THEN l ELSE [h \in Handles |-> FALSE]

\* ------------------------------------------- Ptr (without EMP_TRACK_MEM)
\* The operations of the class that holds only ptr, on the state B of that
\* build.  The program runs the same operations with the same arguments in
\* both builds; it is followed only as far as the tracked build gets.
Follow(B) == notrack' = IF err' = "" THEN B ELSE NoTrackInit

\* Ptr(), Ptr(std::nullptr_t)
NoTrack_Default(B, h) == [B EXCEPT !.ptr[h] = Null]

\* Ptr(const Ptr<TYPE> &)
NoTrack_Copy(B, h, s) == [B EXCEPT !.ptr[h] = B.ptr[s]]

\* Ptr(Ptr<TYPE> &&)
NoTrack_Move(B, h, s) == [B EXCEPT !.ptr[h] = B.ptr[s]]

\* A variant of the raw constructor that registers the address when asked to.
NoTrack_Raw_Tracking(B, h, a, track) ==
  IF track /\ a # Null
  THEN [B EXCEPT !.ptr[h] = a, !.id_info = Append(@, PtrInfo(a))]
  ELSE [B EXCEPT !.ptr[h] = a]

\* Ptr(T2 * in_ptr, bool)
NoTrack_Raw(B, h, a, track) == [B EXCEPT !.ptr[h] = a]

\* Ptr(T2 * _ptr, size_t, bool)
NoTrack_RawArray(B, h, a, array_size, track) == [B EXCEPT !.ptr[h] = a]

\* Ptr(Ptr<T2> _in)
NoTrack_Convert(B, h, s) == [B EXCEPT !.ptr[h] = B.ptr[s]]

\* ~Ptr(); the slot of a destroyed Ptr holds the member of a default one.
NoTrack_Destroy(B, h) == NoTrack_Default(B, h)

\* Cast<T2>()
NoTrack_Cast(B, h, s) == NoTrack_Raw(B, h, B.ptr[s], FALSE)

\* DynamicCast<T2>()
NoTrack_DynamicCast(B, h, s, convertible) ==
  NoTrack_Raw(B, h, IF convertible THEN B.ptr[s] ELSE Null, FALSE)

\* New(args...)
NoTrack_New(B, h, a) == [B EXCEPT !.ptr[h] = a]

\* NewArray(array_size)
NoTrack_NewArray(B, h, a, array_size) == [B EXCEPT !.ptr[h] = a]

\* Delete(), DeleteArray(): delete and delete [] of a null ptr do nothing.
NoTrack_Delete(B, h) ==
  IF B.ptr[h] = Null THEN B ELSE [B EXCEPT !.freed[B.ptr[h]] = @ + 1]

NoTrack_DeleteArray(B, h) ==
  IF B.ptr[h] = Null THEN B ELSE [B EXCEPT !.freed[B.ptr[h]] = @ + 1]

\* operator=(const Ptr<TYPE> & _in)
NoTrack_CopyAssign(B, h, s) == [B EXCEPT !.ptr[h] = B.ptr[s]]

\* operator=(Ptr<TYPE> && _in)
NoTrack_MoveAssign(B, h, s) ==
  LET B1 == [B EXCEPT !.ptr[h] = B.ptr[s]]
  IN  [B1 EXCEPT !.ptr[s] = Null]

\* operator=(T2 * _in)
NoTrack_RawAssign(B, h, a) == [B EXCEPT !.ptr[h] = a]

\* operator=(Ptr<T2> _in)
NoTrack_ConvertAssign(B, h, s) == [B EXCEPT !.ptr[h] = B.ptr[s]]

\* operator*(), operator->()
NoTrack_Deref(B, h) == B

\* operator[](pos)
NoTrack_Index(B, h, pos) == B

\* A constructor ran on slot h and left M: the object is alive if it completed.
Constructed(M, h) ==
  /\ Commit(M)
  /\ live' = Alive([live EXCEPT ![h] = TRUE])

\* Ptr() and Ptr(std::nullptr_t)
Ptr_Default(M, h) == SetId(SetPtr(M, h, Null), h, NoId)

DefaultConstruct(h) ==
  /\ Running /\ IsFreeSlot(h)
  /\ Constructed(Ptr_Default(Cur, h), h)
  /\ errOp' = Blame("DefaultConstruct")
  /\ Follow(NoTrack_Default(notrack, h))

\* Ptr(const Ptr<TYPE> & _in)
\* Mutant: the copy takes the id but not the address.
Ptr_Copy_IdOnly(M, h, s) ==
  LET M1 == SetId(SetPtr(M, h, Null), h, M.id[s])
  IN  IncID(M1, M1.id[h])

Ptr_Copy(M, h, s) ==
  LET M1 == SetId(SetPtr(M, h, M.ptr[s]), h, M.id[s])
  IN  IncID(M1, M1.id[h])

CopyConstruct(h, s) ==
  /\ Running /\ IsFreeSlot(h) /\ live[s]
  /\ Constructed(Ptr_Copy(Cur, h, s), h)
  /\ errOp' = Blame("CopyConstruct")
  /\ Follow(NoTrack_Copy(notrack, h, s))

\* Mutant: the source keeps its id.
Ptr_Move_KeepsId(M, h, s) == SetId(SetPtr(M, h, M.ptr[s]), h, M.id[s])

\* Ptr(Ptr<TYPE> && _in): only _in.id is reset, _in.ptr is left as it was.
Ptr_Move(M, h, s) ==
  LET M1 == SetId(SetPtr(M, h, M.ptr[s]), h, M.id[s])
  IN  SetId(M1, s, NoId)

MoveConstruct(h, s) ==
  /\ Running /\ IsFreeSlot(h) /\ live[s]
  /\ Constructed(Ptr_Move(Cur, h, s), h)
  /\ errOp' = Blame("MoveConstruct")
  /\ Follow(NoTrack_Move(notrack, h, s))

\* The alias-or-register rule shared by the raw constructors, on this->ptr.
Ptr_Attach(M, h) ==
  LET i  == GetCurID(M, M.ptr[h])
  IN  IncID(SetId(M, h, i), i)

\* Mutant: no alias detection, a tracked construction always registers.
Ptr_Raw_NoAlias(M, h, a, track) ==
  LET M1 == SetId(SetPtr(M, h, a), h, NoId)
  IN  IF M1.err # "" THEN M1
      ELSE IF track THEN SetId(New(M1, a), h, GetNumIDs(M1))
      ELSE M1

\* Ptr(T2 * in_ptr, bool track)
Ptr_Raw(M, h, a, track) ==
  LET M1 == SetId(SetPtr(M, h, a), h, NoId)
  IN  IF M1.err # "" THEN M1
      ELSE IF IsActive(M1, a) THEN Ptr_Attach(M1, h)
      ELSE IF track THEN SetId(New(M1, a), h, GetNumIDs(M1))
      ELSE M1

RawConstruct(h, a, track) ==
  /\ Running /\ IsFreeSlot(h)
  /\ Len(id_info) < MaxRecords
  /\ Constructed(Ptr_Raw(Cur, h, a, track), h)
  /\ errOp' = Blame("RawConstruct")
  /\ Follow(NoTrack_Raw(notrack, h, a, track))

\* Ptr(T2 * _ptr, size_t array_size, bool track), with T2 = TYPE.
\* A variant of the array constructor without the assert on the byte size.
Ptr_RawArray_AnySize(M, h, a, array_size, track) ==
  LET M1 == SetId(SetPtr(M, h, a), h, NoId)
  IN  IF M1.err # "" THEN M1
      ELSE IF IsActive(M1, a) THEN Ptr_Attach(M1, h)
      ELSE IF track
        THEN SetId(NewArray(M1, a, Mul(array_size, SizeofT)), h, GetNumIDs(M1))
      ELSE M1

Ptr_RawArray(M, h, a, array_size, track) ==
  LET array_bytes == Mul(array_size, SizeofT)
      M1 == SetId(SetPtr(M, h, a), h, NoId)
      M2 == Ptr_Attach(M1, h)
  IN  IF M1.err # "" THEN M1
      ELSE IF IsActive(M1, a)
        THEN Check(M2, GetArrayBytes(M2, M2.id[h]) = array_bytes,
                   "array bytes differ from the tracked array's")
      ELSE IF track THEN SetId(NewArray(M1, a, array_bytes), h, GetNumIDs(M1))
      ELSE M1

ArrayConstruct(h, a, n, track) ==
  /\ Running /\ IsFreeSlot(h)
  /\ Len(id_info) < MaxRecords
  /\ Constructed(Ptr_RawArray(Cur, h, a, n, track), h)
  /\ errOp' = Blame("ArrayConstruct")
  /\ Follow(NoTrack_RawArray(notrack, h, a, n, track))

\* Ptr(Ptr<T2> _in): the by-value parameter is a copy of the argument s,
\* alive during the constructor and destroyed after it.
Ptr_Convert(M, h, s) ==
  LET M1 == IncID(M, M.id[s])
      M2 == Check(M1, ~IsDeleted(M1, M1.id[s]), "Do not convert deleted Ptr to raw.")
      M3 == SetId(SetPtr(M2, h, M2.ptr[s]), h, M2.id[s])
      M4 == IncID(M3, M3.id[h])
  IN  DecID(M4, M4.id[s])

ConvertConstruct(h, s) ==
  /\ Running /\ IsFreeSlot(h) /\ live[s]
  /\ Constructed(Ptr_Convert(Cur, h, s), h)
  /\ errOp' = Blame("ConvertConstruct")
  /\ Follow(NoTrack_Convert(notrack, h, s))

\* ~Ptr()
\* A variant of the destructor that frees the memory with the last reference.
Ptr_Destroy_Owning(M, h) ==
  LET M1 == DecID(M, M.id[h])
  IN  IF M1.err = "" /\ M.id[h] # NoId /\ GetIDCount(M1, M.id[h]) = 0
      THEN [M1 EXCEPT !.freed[M1.ptr[h]] = @ + 1]
      ELSE M1

Ptr_Destroy(M, h) == DecID(M, M.id[h])

Destroy(h) ==
  /\ Running /\ live[h]
  /\ LET M == Ptr_Destroy(Cur, h)
     IN  IF M.err = ""
         THEN Commit(Ptr_Default(M, h))
         ELSE Commit(M)
  /\ live' = Alive([live EXCEPT ![h] = FALSE])
  /\ errOp' = Blame("Destroy")
  /\ Follow(NoTrack_Destroy(notrack, h))

\* Cast<T2>(): the returned Ptr<T2> is built from the raw pointer, untracked.
\* A variant of Cast without the assert on the record of the source.
Ptr_Cast_Unchecked(M, h, s) == Ptr_Raw(M, h, M.ptr[s], FALSE)

Ptr_Cast(M, h, s) ==
  LET M1 == Check(M, ~IsDeleted(M, M.id[s]), "Do not cast deleted pointers.")
  IN  Ptr_Raw(M1, h, M.ptr[s], FALSE)

Cast(h, s) ==
  /\ Running /\ IsFreeSlot(h) /\ live[s]
  /\ Constructed(Ptr_Cast(Cur, h, s), h)
  /\ errOp' = Blame("Cast")
  /\ Follow(NoTrack_Cast(notrack, h, s))

\* DynamicCast<T2>(); convertible says whether dynamic_cast<T2*> of a non-null
\* ptr succeeds (dynamic_cast of nullptr is nullptr).
Ptr_DynamicCast(M, h, s, convertible) ==
  LET M1 == Check(M, M.ptr[s] # Null /\ convertible, "dynamic_cast<T2*>(ptr) != nullptr")
  IN  Ptr_Cast(M1, h, s)

DynamicCast(h, s, convertible) ==
  /\ Running /\ IsFreeSlot(h) /\ live[s]
  /\ Constructed(Ptr_DynamicCast(Cur, h, s, convertible), h)
  /\ errOp' = Blame("DynamicCast")
  /\ Follow(NoTrack_DynamicCast(notrack, h, s, convertible))

\* An address malloc or new can return: any non-null one.  It can be one the
\* tracker still holds Active, when the block was released behind its back.
Malloc(a) == a # Null

\* New(args...): a is the address malloc returns.
Ptr_New(M, h, a) ==
  LET M1 == SetPtr(DecID(M, M.id[h]), h, a)
  IN  SetId(New(M1, a), h, GetNumIDs(M1))

PtrNew(h, a) ==
  /\ Running /\ live[h]
  /\ Len(id_info) < MaxRecords
  /\ Malloc(a)
  /\ Commit(Ptr_New(Cur, h, a))
  /\ errOp' = Blame("New")
  /\ live' = Alive(live)
  /\ Follow(NoTrack_New(notrack, h, a))

\* for (i < array_size) new (ptr + i*sizeof(TYPE)) TYPE(): ptr is a TYPE*, so
\* element i is constructed at element index i*sizeof(TYPE) of a block of
\* array_size elements.
PlacementIndex(i) == Mul(i, SizeofT)

\* Some element is constructed outside the block malloc returned.
Overruns(array_size) ==
  \E i \in 0..(array_size - 1) : PlacementIndex(i) >= array_size

\* A write outside the block is undefined behaviour: the build either goes
\* on unharmed (intact), or what follows is no longer the program's doing.
PlacementOutcomes(array_size) ==
  IF Overruns(array_size) THEN BOOLEAN ELSE {TRUE}

\* NewArray(array_size): a is the address malloc returns.
Ptr_NewArray(M, h, a, array_size, intact) ==
  LET M1 == SetPtr(DecID(M, M.id[h]), h, a)
      M2 == Undefined(M1, intact, "NewArray: element constructed outside the block")
  IN  SetId(NewArray(M2, a, Mul(array_size, SizeofT)), h, GetNumIDs(M2))

PtrNewArray(h, a, n) ==
  /\ Running /\ live[h]
  /\ Len(id_info) < MaxRecords
  /\ Malloc(a)
  /\ \E intact \in PlacementOutcomes(n) :
       Commit(Ptr_NewArray(Cur, h, a, n, intact))
  /\ errOp' = Blame("NewArray")
  /\ live' = Alive(live)
  /\ Follow(NoTrack_NewArray(notrack, h, a, n))

\* NewPtr<T>(args...): new T, then Ptr<T>(ptr, true).
NewPtr(h, a) ==
  /\ Running /\ IsFreeSlot(h)
  /\ Len(id_info) < MaxRecords
  /\ Malloc(a)
  /\ Constructed(Ptr_Raw(Cur, h, a, TRUE), h)
  /\ errOp' = Blame("NewPtr")
  /\ Follow(NoTrack_Raw(notrack, h, a, TRUE))

\* NewArrayPtr<T>(array_size): new T[array_size], then Ptr<T>(ptr, array_size, true).
NewArrayPtr(h, a, n) ==
  /\ Running /\ IsFreeSlot(h)
  /\ Len(id_info) < MaxRecords
  /\ Malloc(a)
  /\ Constructed(Ptr_RawArray(Cur, h, a, n, TRUE), h)
  /\ errOp' = Blame("NewArrayPtr")
  /\ Follow(NoTrack_RawArray(notrack, h, a, n, TRUE))

\* Mutant: no assert on the kind of the record.
Ptr_DeleteChecks_AnyKind(M, h, array) ==
  LET M1 == Check(M, M.id[h] # NoId /\ M.id[h] < GetNumIDs(M),
                  "Deleting Ptr that we are not resposible for.")
  IN  Check(M1, M1.ptr[h] # Null, "Deleting null Ptr.")

\* The asserts of Delete() and DeleteArray() that come before MarkDeleted.
Ptr_DeleteChecks(M, h, array) ==
  LET M1 == Check(M, M.id[h] # NoId /\ M.id[h] < GetNumIDs(M),
                  "Deleting Ptr that we are not resposible for.")
      M2 == Check(M1, M1.ptr[h] # Null, "Deleting null Ptr.")
  IN  IF M2.err # "" THEN M2
      ELSE Check(M2, IsArrayID(M2, M2.id[h]) = array,
                 IF array THEN "Trying to delete non-array pointer as array."
                          ELSE "Trying to delete array pointer as non-array.")

\* delete ptr; and delete [] ptr; on a non-null ptr.
Free(M, p) == IF M.err # "" THEN M ELSE [M EXCEPT !.freed[p] = @ + 1]

\* Mutant: Delete() on an untracked Ptr only frees the memory.
Ptr_Delete_Untracked(M, h) ==
  LET M1 == Ptr_DeleteChecks(M, h, FALSE)
      M2 == MarkDeleted(M1, M1.id[h])
  IN  IF M.id[h] = NoId /\ M.ptr[h] # Null THEN Free(M, M.ptr[h])
      ELSE Free(M2, M2.ptr[h])

\* Delete()
Ptr_Delete(M, h) ==
  LET M1 == Ptr_DeleteChecks(M, h, FALSE)
      M2 == MarkDeleted(M1, M1.id[h])
  IN  Free(M2, M2.ptr[h])

\* DeleteArray()
Ptr_DeleteArray(M, h) ==
  LET M1 == Ptr_DeleteChecks(M, h, TRUE)
      M2 == MarkDeleted(M1, M1.id[h])
  IN  Free(M2, M2.ptr[h])

Delete(h) ==
  /\ Running /\ live[h]
  /\ Commit(Ptr_Delete(Cur, h))
  /\ errOp' = Blame("Delete")
  /\ live' = Alive(live)
  /\ Follow(NoTrack_Delete(notrack, h))

DeleteArray(h) ==
  /\ Running /\ live[h]
  /\ Commit(Ptr_DeleteArray(Cur, h))
  /\ errOp' = Blame("DeleteArray")
  /\ live' = Alive(live)
  /\ Follow(NoTrack_DeleteArray(notrack, h))

\* operator=(const Ptr<TYPE> & _in)
Ptr_CopyAssign(M, h, s) ==
  LET M1 == Check(M, ~IsDeleted(M, M.id[s]), "Do not copy deleted pointers.")
      M2 == DecID(M1, M1.id[h])
      M3 == SetId(SetPtr(M2, h, M2.ptr[s]), h, M2.id[s])
  IN  IF M1.id[h] # M1.id[s] THEN IncID(M3, M3.id[h]) ELSE M1

CopyAssign(h, s) ==
  /\ Running /\ live[h] /\ live[s]
  /\ Commit(Ptr_CopyAssign(Cur, h, s))
  /\ errOp' = Blame("CopyAssign")
  /\ live' = Alive(live)
  /\ Follow(NoTrack_CopyAssign(notrack, h, s))

\* operator=(Ptr<TYPE> && _in)
Ptr_MoveAssign(M, h, s) ==
  LET M1 == Check(M, ~IsDeleted(M, M.id[s]), "Do not move deleted pointers.")
      M2 == DecID(M1, M1.id[h])
      M3 == SetId(SetPtr(M2, h, M2.ptr[s]), h, M2.id[s])
  IN  IF M1.id[h] # M1.id[s] THEN SetId(SetPtr(M3, s, Null), s, NoId) ELSE M1

MoveAssign(h, s) ==
  /\ Running /\ live[h] /\ live[s]
  /\ Commit(Ptr_MoveAssign(Cur, h, s))
  /\ errOp' = Blame("MoveAssign")
  /\ live' = Alive(live)
  /\ Follow(NoTrack_MoveAssign(notrack, h, s))

\* Mutant: the former record is not decremented.
Ptr_RawAssign_NoDec(M, h, a) ==
  LET M1 == SetPtr(M, h, a)
  IN  IF IsActive(M1, a) THEN Ptr_Attach(M1, h)
      ELSE SetId(M1, h, NoId)

\* operator=(T2 * _in)
Ptr_RawAssign(M, h, a) ==
  LET M1 == SetPtr(DecID(M, M.id[h]), h, a)
  IN  IF M1.err # "" THEN M1
      ELSE IF IsActive(M1, a) THEN Ptr_Attach(M1, h)
      ELSE SetId(M1, h, NoId)

RawAssign(h, a) ==
  /\ Running /\ live[h]
  /\ Commit(Ptr_RawAssign(Cur, h, a))
  /\ errOp' = Blame("RawAssign")
  /\ live' = Alive(live)
  /\ Follow(NoTrack_RawAssign(notrack, h, a))

\* operator=(Ptr<T2> _in): the by-value parameter is a copy of the argument s.
Ptr_ConvertAssign(M, h, s) ==
  LET M1 == IncID(M, M.id[s])
      M2 == Check(M1, ~IsDeleted(M1, M1.id[s]), "Do not convert deleted Ptr to raw.")
      M3 == DecID(M2, M2.id[h])
      M4 == SetId(SetPtr(M3, h, M3.ptr[s]), h, M3.id[s])
      M5 == IncID(M4, M4.id[h])
  IN  DecID(M5, M.id[s])

ConvertAssign(h, s) ==
  /\ Running /\ live[h] /\ live[s]
  /\ Commit(Ptr_ConvertAssign(Cur, h, s))
  /\ errOp' = Blame("ConvertAssign")
  /\ live' = Alive(live)
  /\ Follow(NoTrack_ConvertAssign(notrack, h, s))

\* Mutant: only the null check.
Ptr_Deref_NullOnly(M, h) ==
  Check(M, M.ptr[h] # Null, "Do not dereference a null pointer!")

\* operator*() and operator->(): the asserts before the access.
Ptr_Deref(M, h) ==
  LET M1 == Check(M, ~IsDeleted(M, M.id[h]), "dereference of a deleted Ptr")
  IN  Check(M1, M1.ptr[h] # Null, "Do not dereference a null pointer!")

Deref(h) ==
  /\ Running /\ live[h]
  /\ Commit(Ptr_Deref(Cur, h))
  /\ errOp' = Blame("Deref")
  /\ live' = Alive(live)
  /\ Follow(NoTrack_Deref(notrack, h))

\* id_info[i]: id_info is an emp::vector, whose operator[] asserts that the
\* index is below its size.
InRange(M, i) == i \in 0..(GetNumIDs(M) - 1)

\* A variant of operator[] that keeps only the assert on the address.
Ptr_Index_NullOnly(M, h, pos) ==
  Check(M, M.ptr[h] # Null, "Do not follow a null pointer!")

\* operator[](pos): the asserts before the access.  With an untracked id the
\* reads id_info[(size_t) -1] of IsArrayID and GetArrayBytes are out of range.
Ptr_Index(M, h, pos) ==
  LET M1 == Check(M, ~IsDeleted(M, M.id[h]), "dereference of a deleted Ptr")
      M2 == IF ~InRange(M1, M1.id[h])
            THEN Check(M1, FALSE, "id_info index out of range")
            ELSE Check(Check(M1, IsArrayID(M1, M1.id[h]), "Only arrays can be indexed into."),
                       GetArrayBytes(M1, M1.id[h]) > Mul(pos, SizeofT), "Indexing out of range.")
  IN  Check(M2, M2.ptr[h] # Null, "Do not follow a null pointer!")

Index(h, pos) ==
  /\ Running /\ live[h]
  /\ Commit(Ptr_Index(Cur, h, pos))
  /\ errOp' = Blame("Index")
  /\ live' = Alive(live)
  /\ Follow(NoTrack_Index(notrack, h, pos))

\* ~PtrTracker(): the scan over id_info.  total counts the records and remain
\* those with a nonzero count; every record is asserted not to be active.
\* The result is what is printed, when the scan gets through.
PtrTracker_Destroy(M) ==
  LET all    == 1..Len(M.id_info)
      total  == Len(M.id_info)
      remain == Cardinality({i \in all : M.id_info[i].count # 0})
      M1     == Check(M, \A i \in all : PtrInfo_IsActive(M.id_info[i]) = FALSE,
                      "info.IsActive() == false")
  IN  [err |-> M1.err, total |-> total, remain |-> remain]

\* The process exits and the tracker, a static object, is destroyed; nothing
\* runs after it.
Exit ==
  /\ Running
  /\ LET R == PtrTracker_Destroy(Cur)
     IN  /\ err' = R.err
         /\ report' = IF R.err = "" THEN <<R.total, R.remain>> ELSE << >>
  /\ errOp' = Blame("~PtrTracker")
  /\ id_info' = << >>
  /\ ptr_id' = << >>
  /\ ptr' = [h \in Handles |-> Null]
  /\ id' = [h \in Handles |-> NoId]
  /\ live' = [h \in Handles |-> FALSE]
  /\ freed' = [a \in Addr |-> 0]
  /\ notrack' = NoTrackInit
  /\ hash' = hash

Next ==
  \/ \E h \in Handles : DefaultConstruct(h)
  \/ \E h, s \in Handles : CopyConstruct(h, s)
  \/ \E h, s \in Handles : MoveConstruct(h, s)
  \/ \E h \in Handles, a \in AddrOrNull, track \in BOOLEAN : RawConstruct(h, a, track)
  \/ \E h \in Handles, a \in AddrOrNull, n \in ArrayLens, track \in BOOLEAN :
       ArrayConstruct(h, a, n, track)
  \/ \E h, s \in Handles : ConvertConstruct(h, s)
  \/ \E h \in Handles : Destroy(h)
  \/ \E h, s \in Handles : Cast(h, s)
  \/ \E h, s \in Handles, c \in BOOLEAN : DynamicCast(h, s, c)
  \/ \E h \in Handles, a \in Addr : PtrNew(h, a)
  \/ \E h \in Handles, a \in Addr, n \in ArrayLens : PtrNewArray(h, a, n)
  \/ \E h \in Handles, a \in Addr : NewPtr(h, a)
  \/ \E h \in Handles, a \in Addr, n \in ArrayLens : NewArrayPtr(h, a, n)
  \/ \E h \in Handles : Delete(h)
  \/ \E h \in Handles : DeleteArray(h)
  \/ \E h, s \in Handles : CopyAssign(h, s)
  \/ \E h, s \in Handles : MoveAssign(h, s)
  \/ \E h \in Handles, a \in AddrOrNull : RawAssign(h, a)
  \/ \E h, s \in Handles : ConvertAssign(h, s)
  \/ \E h \in Handles : Deref(h)
  \/ \E h \in Handles, pos \in IndexPos : Index(h, pos)
  \/ Exit

Spec == Init /\ [][Next]_vars

\* -------------------------------------------------------------------- Hash
\* The machine addresses and the pointee sizes Hash() is called with.
Words == 0..(SizeT - 1)

Sizes == 1..MaxSizeof

\* Hash() of Ptr<TYPE> with sizeof(TYPE) = size.
Ptr_Hash(M, h, size) == ShiftRight(M.ptr[h], Log2(1 + size))

\* Hash() of the Ptr without EMP_TRACK_MEM.
NoTrack_Hash(B, h, size) == ShiftRight(B.ptr[h], Log2(1 + size))

\* The first Ptr holds machine address p, constructed from the raw pointer,
\* with a record of its own when tracked; p is a machine address here, so no
\* memory operation is followed (freed is not used).
HashInit ==
  \E p \in Words, tracked \in BOOLEAN :
    /\ tracked => p # Null
    /\ id_info = IF tracked THEN <<PtrInfo(p)>> ELSE << >>
    /\ ptr_id = IF tracked THEN [x \in {p} |-> 0] ELSE << >>
    /\ ptr = [h \in Handles |-> IF h = 1 THEN p ELSE Null]
    /\ id = [h \in Handles |-> IF h = 1 /\ tracked THEN 0 ELSE NoId]
    /\ live = [h \in Handles |-> h = 1]
    /\ freed = [a \in Addr |-> 0]
    /\ err = ""
    /\ errOp = ""
    /\ report = << >>
    /\ notrack = [NoTrackInit EXCEPT !.ptr[1] = p]
    /\ hash = << >>

\* h.Hash() for a handle of pointee size size.
Hash(h, size) ==
  /\ Running /\ live[h]
  /\ hash' = [h |-> h, size |-> size,
              value |-> Ptr_Hash(Cur, h, size),
              notrack |-> NoTrack_Hash(notrack, h, size)]
  /\ UNCHANGED <<id_info, ptr_id, ptr, id, live, freed, err, errOp, report, notrack>>

HashNext == \E h \in Handles, size \in Sizes : Hash(h, size)

HashSpec == HashInit /\ [][HashNext]_vars

\* ------------------------------------------------------------ properties
Ids == 0 .. (Len(id_info) - 1)

Rec(i) == id_info[i + 1]

RecActive(i) == PtrInfo_IsActive(Rec(i))

\* The live handles that hold record id i.
LiveWith(i) == {h \in Handles : live[h] /\ id[h] = i}

\* Address a was released by Delete()/DeleteArray() and not registered since.
ReleasedAddr(a) == HasPtr(Cur, a) /\ IsDeleted(Cur, GetCurID(Cur, a))

\* h is the only live handle of an Active record.
SoleOwner(h) ==
  /\ live[h] /\ id[h] # NoId
  /\ RecActive(id[h]) /\ Rec(id[h]).count = 1

\* C1: as long as no violation was raised, every record's count is the number
\* of live handles whose id is that record's id.
C1_CountIsLiveHandles ==
  err = "" => \A i \in Ids : Rec(i).count = Cardinality(LiveWith(i))

C1_Witness ==
  /\ err = ""
  /\ \E i \in Ids : Rec(i).count = 2 /\ Cardinality(LiveWith(i)) = 2
  /\ \E i \in Ids : Rec(i).count = 0 /\ ~RecActive(i)

\* C2 as stated: no dereference passes its asserts through any live handle
\* (tracked, untracked or moved-from) whose address is released.
C2_UseAfterFreeCaught ==
  err = "" =>
    \A h \in Handles :
      (live[h] /\ ptr[h] # Null /\ ReleasedAddr(ptr[h])) =>
        /\ Ptr_Deref(Cur, h).err # ""
        /\ \A pos \in IndexPos : Ptr_Index(Cur, h, pos).err # ""

\* C2 amended: no dereference, member access or index passes its asserts
\* through a live handle that holds a record id (a tracked handle) and whose
\* address is released.
C2_TrackedUseAfterFreeCaught ==
  err = "" =>
    \A h \in Handles :
      (live[h] /\ id[h] # NoId /\ ptr[h] # Null /\ ReleasedAddr(ptr[h])) =>
        /\ Ptr_Deref(Cur, h).err # ""
        /\ \A pos \in IndexPos : Ptr_Index(Cur, h, pos).err # ""

\* A tracked handle whose address has been released, and an untracked one.
C2_Witness ==
  /\ err = ""
  /\ \E g, h \in Handles :
       /\ live[h] /\ id[h] # NoId /\ ReleasedAddr(ptr[h])
       /\ live[g] /\ id[g] = NoId /\ ptr[g] = ptr[h]

\* The states of the end-to-end scenario, for handles a and b and address x.
Scen1(a, x) ==
  /\ err = "" /\ live[a] /\ ptr[a] = x /\ id[a] = 0
  /\ id_info = <<[ptr |-> x, count |-> 1, status |-> "ACTIVE", array_bytes |-> 0]>>

Scen2(a, b, x) ==
  /\ err = "" /\ live[a] /\ ptr[a] = x /\ id[a] = 0
  /\ live[b] /\ ptr[b] = x /\ id[b] = 0
  /\ id_info = <<[ptr |-> x, count |-> 2, status |-> "ACTIVE", array_bytes |-> 0]>>

Scen3(a, b, x) ==
  /\ err = "" /\ ~live[a] /\ live[b] /\ ptr[b] = x /\ id[b] = 0
  /\ id_info = <<[ptr |-> x, count |-> 1, status |-> "ACTIVE", array_bytes |-> 0]>>

Scen4(a, b, x) ==
  /\ err = "" /\ ~live[a] /\ live[b] /\ ptr[b] = x /\ id[b] = 0
  /\ id_info = <<[ptr |-> x, count |-> 1, status |-> "DELETED", array_bytes |-> 0]>>

Scen5(a, b, x) ==
  /\ err = "" /\ ~live[a] /\ ~live[b]
  /\ id_info = <<[ptr |-> x, count |-> 0, status |-> "DELETED", array_bytes |-> 0]>>

\* Record 0 is deleted and no dereference through a handle holding id 0 passes.
Scen6 ==
  /\ Len(id_info) >= 1 /\ ~RecActive(0)
  /\ \A h \in Handles : (live[h] /\ id[h] = 0) => Ptr_Deref(Cur, h).err # ""

\* C3: each step of the end-to-end scenario leads from the state the scenario
\* names to the next one it names, starting on an empty registry; and once
\* record 0 is deleted, it stays deleted and every dereference through a handle
\* holding id 0 is a violation, for as long as the program runs.
C3_Scenario ==
  [][/\ Len(id_info) <= 1 =>
          \A a, b \in Handles, x \in Addr :
            a # b =>
              /\ (Len(id_info) = 0 /\ RawConstruct(a, x, TRUE)) => Scen1(a, x)'
              /\ (Scen1(a, x) /\ CopyConstruct(b, a)) => Scen2(a, b, x)'
              /\ (Scen2(a, b, x) /\ Destroy(a)) => Scen3(a, b, x)'
              /\ (Scen3(a, b, x) /\ Delete(b)) => (Scen4(a, b, x)' /\ Scen6')
              /\ (Scen4(a, b, x) /\ Destroy(b)) => Scen5(a, b, x)'
              /\ (Scen4(a, b, x) /\ Deref(b)) => err' # ""
     /\ (Len(id_info) >= 1 /\ ~RecActive(0) /\ Running') => Scen6'
    ]_vars

C3_Witness == \E a, b \in Handles, x \in Addr : a # b /\ Scen5(a, b, x)

\* What C4 says of Ptr(addr, track) on a free slot h; null_rejected says
\* whether a null addr with track set is taken to be rejected.
RawRule(h, a, track, null_rejected) ==
  LET M == Ptr_Raw(Cur, h, a, track)
      n == Len(id_info)
  IN  IF IsActive(Cur, a)
        THEN /\ M.err = ""
             /\ M.id[h] = GetCurID(Cur, a)
             /\ M.id_info = [id_info EXCEPT ![GetCurID(Cur, a) + 1].count = @ + 1]
             /\ M.ptr_id = ptr_id
      ELSE IF track /\ a = Null /\ null_rejected
        THEN /\ M.err # ""
             /\ M.id_info = id_info /\ M.ptr_id = ptr_id
      ELSE IF track
        THEN /\ M.err = ""
             /\ M.id[h] = n
             /\ M.id_info = Append(id_info,
                  [ptr |-> a, count |-> 1, status |-> "ACTIVE", array_bytes |-> 0])
             /\ GetCurID(M, a) = n
      ELSE /\ M.err = ""
           /\ M.id[h] = NoId
           /\ M.id_info = id_info /\ M.ptr_id = ptr_id

\* C4 as stated: the alias-or-register rule for every addr, null included.
C4_AliasOrRegister ==
  err = "" =>
    \A h \in Handles, a \in AddrOrNull, track \in BOOLEAN :
      IsFreeSlot(h) => RawRule(h, a, track, FALSE)

\* C4 amended: the alias-or-register rule for a non-null addr; a null addr
\* with track set is rejected and the registry is unchanged.  Two handles
\* constructed from one Active address share its record id.
C4_AliasOrRegisterNonNull ==
  err = "" =>
    \A h \in Handles, a \in AddrOrNull, track \in BOOLEAN :
      IsFreeSlot(h) =>
        /\ RawRule(h, a, track, TRUE)
        /\ \A g \in Handles :
             (live[g] /\ ptr[g] = a /\ id[g] # NoId /\ RecActive(id[g])) =>
               Ptr_Raw(Cur, h, a, track).id[h] = id[g]

C4_Witness ==
  /\ err = ""
  /\ \E g, h \in Handles :
       /\ g # h /\ live[g] /\ live[h]
       /\ ptr[g] # Null /\ ptr[g] = ptr[h]
       /\ id[g] # NoId /\ id[g] = id[h]
       /\ Rec(id[g]) = [ptr |-> ptr[g], count |-> 2, status |-> "ACTIVE", array_bytes |-> 0]

\* C5: at most one record per address is Active.
C5_OneActivePerAddress ==
  \A i, j \in Ids :
    (i # j /\ Rec(i).ptr = Rec(j).ptr) => ~(RecActive(i) /\ RecActive(j))

\* Two Deleted records of one address.
C5_Witness ==
  \E i, j \in Ids :
    /\ i # j /\ Rec(i).ptr = Rec(j).ptr
    /\ ~RecActive(i) /\ ~RecActive(j)

\* C6: a record that is Deleted is Deleted after every step the program
\* survives.
C6_StatusMonotone ==
  [][Running' =>
       \A i \in Ids : ~RecActive(i) => ~PtrInfo_IsActive(id_info'[i + 1])]_vars

\* A Deleted record whose address has been registered again, as an array.
C6_Witness ==
  \E i, j \in Ids :
    /\ i < j /\ Rec(i).ptr = Rec(j).ptr
    /\ ~RecActive(i) /\ Rec(j).status = "ARRAY"

\* C7: no step the program survives removes a record or changes a record's
\* address; a step that registers appends one record, maps its address to the
\* former number of records, and hands that id to a handle.
C7_AppendOnly ==
  [][Running' =>
       /\ Len(id_info') >= Len(id_info)
       /\ \A i \in Ids : id_info'[i + 1].ptr = Rec(i).ptr
       /\ Len(id_info') > Len(id_info) =>
            /\ Len(id_info') = Len(id_info) + 1
            /\ ptr_id'[id_info'[Len(id_info')].ptr] = Len(id_info)
            /\ \E h \in Handles :
                 /\ live'[h] /\ id'[h] = Len(id_info)
                 /\ ptr'[h] = id_info'[Len(id_info')].ptr
    ]_vars

C7_Witness ==
  /\ err = "" /\ Len(id_info) = MaxRecords
  /\ \E h \in Handles : live[h] /\ id[h] = MaxRecords - 1

\* What C8 says of registering address a, whose record i is Deleted, when the
\* registration leaves M.
Reregistered(M, a) ==
  LET i == GetCurID(Cur, a)
      j == GetCurID(M, a)
  IN  /\ M.err = ""
      /\ j = Len(id_info) /\ j # i
      /\ Len(M.id_info) = Len(id_info) + 1
      /\ PtrInfo_IsActive(M.id_info[j + 1]) /\ M.id_info[j + 1].ptr = a
      /\ M.id_info[i + 1] = Rec(i) /\ ~PtrInfo_IsActive(M.id_info[i + 1])

\* C8: registering a released address again yields a new id; the new record
\* is Active, the old one is as it was and Deleted, and the address maps to
\* the new id.
C8_RoundTripReuse ==
  err = "" =>
    \A a \in Addr :
      ReleasedAddr(a) =>
        /\ Reregistered(New(Cur, a), a)
        /\ \A n \in ArrayLens : Reregistered(NewArray(Cur, a, n * SizeofT), a)
        /\ \A h \in Handles :
             IsFreeSlot(h) => Reregistered(Ptr_Raw(Cur, h, a, TRUE), a)

C8_Witness ==
  /\ err = ""
  /\ \E a \in Addr, i, j \in Ids :
       /\ i # j /\ Rec(i).ptr = a /\ Rec(j).ptr = a
       /\ ~RecActive(i) /\ Rec(j).status = "ACTIVE" /\ GetCurID(Cur, a) = j
       /\ \E h \in Handles : live[h] /\ id[h] = j

\* C9: no count is negative, and decrementing a record whose count is 0 is
\* rejected and changes nothing, whichever status the record has.
C9_CountNeverNegative ==
  \A i \in Ids :
    /\ Rec(i).count >= 0
    /\ (err = "" /\ Rec(i).count = 0) =>
         \A st \in {"DELETED", "ACTIVE", "ARRAY"} :
           LET Before == [Cur EXCEPT !.id_info[i + 1].status = st]
               M == DecID(Before, i)
           IN  M.err # "" /\ M.id_info = Before.id_info

C9_Witness ==
  /\ err = ""
  /\ \E i \in Ids : Rec(i).count = 0

\* What C10 says of an operation that takes handle h away from its record and
\* leaves M: rejected with the count at 1 when h is the sole owner; else, when
\* it raised no violation, the count is one less.
DropRule(h, M) ==
  LET i == id[h]
  IN  IF SoleOwner(h)
        THEN M.err # "" /\ M.id_info[i + 1].count = 1
      ELSE M.err = "" => M.id_info[i + 1].count = Rec(i).count - 1

\* C10: destroying a handle that is the sole owner of an Active record, or
\* assigning it another record or address, is rejected and leaves the count
\* at 1; with a count above 1 or a Deleted record the decrement succeeds and
\* lowers the count by one.
C10_LastReferenceMustBeReleased ==
  err = "" =>
    \A h \in Handles :
      (live[h] /\ id[h] # NoId) =>
        LET i == id[h]
            D == DecID(Cur, i)
        IN  /\ Rec(i).count >= 1
            /\ IF SoleOwner(h)
                 THEN D.err # "" /\ D.id_info = id_info
               ELSE D.err = "" /\ D.id_info = [id_info EXCEPT ![i + 1].count = @ - 1]
            /\ Ptr_Destroy(Cur, h) = D
            /\ \A s \in Handles :
                 (live[s] /\ id[s] # i) =>
                   /\ DropRule(h, Ptr_CopyAssign(Cur, h, s))
                   /\ DropRule(h, Ptr_MoveAssign(Cur, h, s))
                   /\ DropRule(h, Ptr_ConvertAssign(Cur, h, s))
            /\ \A a \in AddrOrNull :
                 (a # ptr[h]) => DropRule(h, Ptr_RawAssign(Cur, h, a))
            /\ \A a \in Addr :
                 SoleOwner(h) =>
                   /\ DropRule(h, Ptr_RawAssign(Cur, h, a))
                   /\ DropRule(h, Ptr_New(Cur, h, a))

\* A sole owner of an Active record, beside a Deleted record whose last
\* reference was dropped.
C10_Witness ==
  /\ err = ""
  /\ \E h \in Handles : SoleOwner(h)
  /\ \E i \in Ids : ~RecActive(i) /\ Rec(i).count = 0

\* The live handles that hold the id of a Deleted record.
OnDeleted(s) == live[s] /\ id[s] # NoId /\ ~RecActive(id[s])

\* What C11 says of an operation that takes a raw address and leaves M, for
\* handle h and the Deleted record i: h is not attached to i and the count of
\* i has not grown.
NotAttached(M, h, i) ==
  M.err = "" => (M.id[h] # i /\ M.id_info[i + 1].count <= Rec(i).count)

\* C11: copy and converting construction and copy and converting assignment
\* from a handle on a Deleted record are rejected; raw and array construction
\* and raw assignment from a Deleted record's address do not attach to that
\* record; and no step raises the count of a Deleted record.
C11_DeletedCountNeverGrows ==
  /\ [](err = "" =>
         /\ \A s \in Handles :
              OnDeleted(s) =>
                /\ \A h \in Handles :
                     IsFreeSlot(h) =>
                       /\ Ptr_Copy(Cur, h, s).err # ""
                       /\ Ptr_Convert(Cur, h, s).err # ""
                /\ \A h \in Handles :
                     live[h] =>
                       /\ Ptr_CopyAssign(Cur, h, s).err # ""
                       /\ Ptr_ConvertAssign(Cur, h, s).err # ""
         /\ \A i \in Ids :
              ~RecActive(i) =>
                /\ \A h \in Handles, track \in BOOLEAN :
                     IsFreeSlot(h) =>
                       /\ NotAttached(Ptr_Raw(Cur, h, Rec(i).ptr, track), h, i)
                       /\ \A n \in ArrayLens :
                            NotAttached(Ptr_RawArray(Cur, h, Rec(i).ptr, n, track), h, i)
                /\ \A h \in Handles :
                     live[h] => NotAttached(Ptr_RawAssign(Cur, h, Rec(i).ptr), h, i))
  /\ [][Running' =>
          \A i \in Ids :
            ~RecActive(i) => id_info'[i + 1].count <= Rec(i).count]_vars

\* A Deleted record that a live handle still holds, its address registered
\* again under a later id.
C11_Witness ==
  /\ err = ""
  /\ \E s \in Handles, j \in Ids :
       /\ OnDeleted(s) /\ Rec(id[s]).count = 1
       /\ j > id[s] /\ Rec(j).ptr = ptr[s] /\ RecActive(j)

\* What C12 says of a registration of address a that leaves M, the new record
\* being rec when it succeeds; null_rejected says whether a null address is
\* taken to be rejected.
RegisterRule(M, a, rec, null_rejected) ==
  IF IsActive(Cur, a) \/ (a = Null /\ null_rejected)
    THEN /\ M.err # ""
         /\ M.id_info = id_info /\ M.ptr_id = ptr_id
  ELSE /\ M.err = ""
       /\ M.id_info = Append(id_info, rec)
       /\ DOMAIN M.ptr_id = DOMAIN ptr_id \cup {a}
       /\ \A x \in DOMAIN M.ptr_id :
            M.ptr_id[x] = IF x = a THEN Len(id_info) ELSE ptr_id[x]

RegisterRules(null_rejected) ==
  \A a \in AddrOrNull :
    /\ RegisterRule(New(Cur, a), a,
         [ptr |-> a, count |-> 1, status |-> "ACTIVE", array_bytes |-> 0],
         null_rejected)
    /\ \A n \in ArrayLens :
         RegisterRule(NewArray(Cur, a, n * SizeofT), a,
           [ptr |-> a, count |-> 1, status |-> "ARRAY", array_bytes |-> n * SizeofT],
           null_rejected)

\* C12 as stated: New and NewArray are rejected, with nothing appended and
\* the mapping unchanged, on an address that is Active, and succeed on every
\* other address, null included.
C12_RegisterRejectsActive == err = "" => RegisterRules(FALSE)

\* C12 amended: the same, for a non-null address; a null address is rejected
\* with nothing appended and the mapping unchanged.
C12_RegisterRejectsActiveOrNull == err = "" => RegisterRules(TRUE)

\* An address that is Active as an array, registered again after its first
\* record was Deleted.
C12_Witness ==
  /\ err = ""
  /\ \E a \in Addr, i \in Ids :
       /\ IsActive(Cur, a) /\ IsArrayID(Cur, GetCurID(Cur, a))
       /\ i < GetCurID(Cur, a) /\ Rec(i).ptr = a /\ ~RecActive(i)

\* What C13 says of a release through handle h that leaves M: it completes,
\* the record of h is Deleted with everything else of it as it was, and no
\* other record, no mapping and no handle has changed.
Released(M, h) ==
  /\ M.err = ""
  /\ M.id_info = [id_info EXCEPT ![id[h] + 1].status = "DELETED"]
  /\ M.id_info[id[h] + 1].count = Rec(id[h]).count
  /\ M.ptr_id = ptr_id
  /\ M.ptr = ptr /\ M.id = id

\* C13: Delete() through a handle on an Active scalar record and DeleteArray()
\* through a handle on an Active array record mark that record Deleted, keep
\* its count, and change no other record and no handle.
C13_ReleaseFrame ==
  err = "" =>
    \A h \in Handles :
      (live[h] /\ id[h] # NoId /\ RecActive(id[h])) =>
        IF IsArrayID(Cur, id[h])
          THEN Released(Ptr_DeleteArray(Cur, h), h)
        ELSE Released(Ptr_Delete(Cur, h), h)

\* A scalar record and an array record, both released and both still held.
C13_Witness ==
  /\ err = ""
  /\ \E g, h \in Handles :
       /\ OnDeleted(g) /\ Rec(id[g]).array_bytes = 0 /\ Rec(id[g]).count = 1
       /\ OnDeleted(h) /\ Rec(id[h]).array_bytes > 0 /\ Rec(id[h]).count = 1

\* A release that leaves M was rejected: no record has changed and no memory
\* was freed.
ReleaseRejected(M) ==
  /\ M.err # ""
  /\ M.id_info = id_info /\ M.ptr_id = ptr_id
  /\ M.freed = freed

\* C14: DeleteArray() through a handle on an Active scalar record and Delete()
\* through a handle on an Active array record are rejected; the record stays
\* Active with its count, and nothing is freed.
C14_MismatchRejected ==
  err = "" =>
    \A h \in Handles :
      (live[h] /\ id[h] # NoId /\ RecActive(id[h])) =>
        IF IsArrayID(Cur, id[h])
          THEN /\ ReleaseRejected(Ptr_Delete(Cur, h))
               /\ Ptr_Delete(Cur, h).err = "Trying to delete array pointer as non-array."
        ELSE /\ ReleaseRejected(Ptr_DeleteArray(Cur, h))
             /\ Ptr_DeleteArray(Cur, h).err = "Trying to delete non-array pointer as array."

\* Delete() was called on an array record and was rejected for it.
C14_Witness ==
  errOp = "Delete" /\ err = "Trying to delete array pointer as non-array."

\* The Deleted records of address a.
DeletedOf(a) == {i \in Ids : Rec(i).ptr = a /\ ~RecActive(i)}

\* C15: Delete() and DeleteArray() through a handle that holds the id of a
\* Deleted record are rejected, whether the record was a scalar or an array,
\* with no record changed and nothing freed; delete has run on an address
\* once for each Deleted record of it.
C15_DoubleFreeRejected ==
  err = "" =>
    /\ \A h \in Handles :
         OnDeleted(h) =>
           /\ ReleaseRejected(Ptr_Delete(Cur, h))
           /\ ReleaseRejected(Ptr_DeleteArray(Cur, h))
    /\ \A a \in Addr : freed[a] = Cardinality(DeletedOf(a))

\* Delete() was called on a record already Deleted and was rejected for it.
C15_Witness ==
  errOp = "Delete" /\ err = "Deleting same emp::Ptr a second time!"

\* C16: Delete() and DeleteArray() through a live handle without a record id
\* are rejected as not being responsible for the pointer, whatever its
\* address (null, unknown to the tracker, Active or Deleted there), with no
\* record changed and nothing freed.
C16_UntrackedReleaseRejected ==
  err = "" =>
    \A h \in Handles :
      (live[h] /\ id[h] = NoId) =>
        /\ ReleaseRejected(Ptr_Delete(Cur, h))
        /\ ReleaseRejected(Ptr_DeleteArray(Cur, h))
        /\ Ptr_Delete(Cur, h).err = "Deleting Ptr that we are not resposible for."
        /\ Ptr_DeleteArray(Cur, h).err = "Deleting Ptr that we are not resposible for."

\* An untracked handle on an address that is Active under a record another
\* handle holds.
C16_Witness ==
  /\ err = ""
  /\ \E g, h \in Handles :
       /\ live[g] /\ id[g] = NoId /\ ptr[g] # Null /\ IsActive(Cur, ptr[g])
       /\ live[h] /\ id[h] = GetCurID(Cur, ptr[g])

\* C17: operator* and operator-> pass their asserts through a live handle
\* exactly when its address is not null and its record, if it has one, is
\* not Deleted; through a handle on a Deleted record they are rejected in
\* every reachable state, also once the address has a new Active record.
C17_DerefExactlyWhenValid ==
  err = "" =>
    \A h \in Handles :
      live[h] =>
        /\ Ptr_Deref(Cur, h).err = ""
             <=> (ptr[h] # Null /\ (id[h] = NoId \/ RecActive(id[h])))
        /\ OnDeleted(h) => Ptr_Deref(Cur, h).err = "dereference of a deleted Ptr"
        /\ Ptr_Deref(Cur, h).err = "" => Ptr_Deref(Cur, h) = Cur

\* A handle on a Deleted record, and another on the Active record the same
\* address has now.
C17_Witness ==
  /\ err = ""
  /\ \E g, h \in Handles :
       /\ OnDeleted(g)
       /\ live[h] /\ id[h] # NoId /\ id[h] # id[g] /\ RecActive(id[h])
       /\ ptr[h] = ptr[g]
       /\ Ptr_Deref(Cur, h).err = "" /\ Ptr_Deref(Cur, g).err # ""

\* C18 as stated: a move construction of h from s gives h the address and id
\* of s, changes no record, and leaves s with a null address and no id.
C18_MoveConstructResetsSource ==
  [][\A h, s \in Handles :
       (MoveConstruct(h, s) /\ err' = "") =>
         /\ live'[h] /\ ptr'[h] = ptr[s] /\ id'[h] = id[s]
         /\ id_info' = id_info /\ ptr_id' = ptr_id
         /\ ptr'[s] = Null /\ id'[s] = NoId
    ]_vars

\* C19 as stated: a copy assignment h = s that completes leaves h with the
\* address and the id of s, and s as it was.
C19_CopyAssignAliases ==
  err = "" =>
    \A h, s \in Handles :
      (live[h] /\ live[s]) =>
        LET M == Ptr_CopyAssign(Cur, h, s)
        IN  M.err = "" =>
              /\ M.ptr[h] = ptr[s] /\ M.id[h] = id[s]
              /\ M.ptr[s] = ptr[s] /\ M.id[s] = id[s]

\* C20 as stated: a move assignment h = move(s) between distinct handles that
\* completes leaves h with the address and the id s had, s with a null
\* address and no id, and the former record of h, if any, with one reference
\* less and every other record as it was.
C20_MoveAssignTransfers ==
  err = "" =>
    \A h, s \in Handles :
      (h # s /\ live[h] /\ live[s]) =>
        LET M == Ptr_MoveAssign(Cur, h, s)
        IN  M.err = "" =>
              /\ M.ptr[h] = ptr[s] /\ M.id[h] = id[s]
              /\ M.ptr[s] = Null /\ M.id[s] = NoId
              /\ M.id_info =
                   IF id[h] = NoId THEN id_info
                   ELSE [id_info EXCEPT ![id[h] + 1].count = @ - 1]

(***************************************************************************)
(* C21.  Indexing at position pos through a handle on an Active array      *)
(* record with a non-null address is accepted exactly when                 *)
(* pos < array_bytes / sizeof(TYPE), for every pos a size_t can hold.      *)
(* The code compares array_bytes with the product pos * sizeof(TYPE),      *)
(* which is computed in size_t and wraps around.                           *)
(***************************************************************************)
IndexableArray(h) ==
  /\ err = ""
  /\ live[h]
  /\ id[h] # NoId
  /\ ptr[h] # Null
  /\ Rec(id[h]).status = "ARRAY"

C21_IndexExactlyInRange ==
  \A h \in Handles :
    IndexableArray(h) =>
      \A pos \in IndexPos :
        (Ptr_Index(Cur, h, pos).err = "")
          <=> (pos < GetArrayBytes(Cur, id[h]) \div SizeofT)

\* Within the positions whose byte offset fits in a size_t the rule holds.
C21_IndexInRangeNoWrap ==
  \A h \in Handles :
    IndexableArray(h) =>
      \A pos \in 0..MaxArrayLen :
        (Ptr_Index(Cur, h, pos).err = "")
          <=> (pos < GetArrayBytes(Cur, id[h]) \div SizeofT)

(***************************************************************************)
(* C22.  Indexing is rejected, at any position, through a handle whose     *)
(* record is scalar, whose record is Deleted, whose address is null, or    *)
(* which is untracked (its id is the sentinel).                            *)
(***************************************************************************)
NotIndexable(h) ==
  \/ id[h] = NoId
  \/ ptr[h] = Null
  \/ id[h] # NoId /\ Rec(id[h]).status = "ACTIVE"
  \/ id[h] # NoId /\ Rec(id[h]).status = "DELETED"

C22_IndexRejected ==
  err = "" =>
    \A h \in Handles :
      (live[h] /\ NotIndexable(h)) =>
        \A pos \in IndexPos : Ptr_Index(Cur, h, pos).err # ""

\* An index through a handle on a scalar record has been rejected.
C22_Witness ==
  /\ errOp = "Index"
  /\ err = "Only arrays can be indexed into."

(***************************************************************************)
(* C23.  Cast and DynamicCast on a handle whose record is not Deleted      *)
(* return a handle with the same address and the same record id as the     *)
(* original (the sentinel when the original is untracked), raising a       *)
(* tracked record's count by exactly one; on a handle whose record is      *)
(* Deleted they are rejected.                                              *)
(***************************************************************************)
\* Handle s can be cast into the unused slot h.
CanCast(h, s) == err = "" /\ live[s] /\ ~live[h]

\* M differs from the current registry by one more reference to record i.
Bumped(M, i) ==
  /\ M.id_info = [id_info EXCEPT ![i + 1].count = @ + 1]
  /\ M.ptr_id = ptr_id

\* M is the current state plus a handle h on address ptr[s] with id i.
CastResult(M, h, s, i) ==
  /\ M.err = ""
  /\ M.ptr = [ptr EXCEPT ![h] = ptr[s]]
  /\ M.id = [id EXCEPT ![h] = i]
  /\ IF i = NoId THEN M.id_info = id_info /\ M.ptr_id = ptr_id ELSE Bumped(M, i)

\* C23 as stated; DynamicCast is taken with a conversion that the types allow.
C23_CastKeepsId ==
  \A h, s \in Handles :
    CanCast(h, s) =>
      IF IsDeleted(Cur, id[s])
      THEN /\ Ptr_Cast(Cur, h, s).err # ""
           /\ Ptr_DynamicCast(Cur, h, s, TRUE).err # ""
      ELSE /\ CastResult(Ptr_Cast(Cur, h, s), h, s, id[s])
           /\ CastResult(Ptr_DynamicCast(Cur, h, s, TRUE), h, s, id[s])

\* The id the handle built from the raw address of s gets: the id of s when s
\* is tracked; for an untracked s the record Active at its address, if any.
CastId(s) ==
  IF id[s] # NoId THEN id[s]
  ELSE IF IsActive(Cur, ptr[s]) THEN GetCurID(Cur, ptr[s])
  ELSE NoId

\* C23 amended: the returned handle has the same address and the id CastId;
\* DynamicCast is rejected when the conversion yields null, as it does from a
\* null address.
C23_CastAttaches ==
  \A h, s \in Handles :
    CanCast(h, s) =>
      /\ IF IsDeleted(Cur, id[s])
         THEN Ptr_Cast(Cur, h, s).err # ""
         ELSE CastResult(Ptr_Cast(Cur, h, s), h, s, CastId(s))
      /\ \A convertible \in BOOLEAN :
           IF IsDeleted(Cur, id[s]) \/ ptr[s] = Null \/ ~convertible
           THEN Ptr_DynamicCast(Cur, h, s, convertible).err # ""
           ELSE CastResult(Ptr_DynamicCast(Cur, h, s, convertible), h, s, CastId(s))

\* An untracked handle s holds an address whose record is Active through
\* another handle, and a slot is free for the handle that a cast of s returns:
\* the cast attaches it to that record.
C23_Witness ==
  \E h, s \in Handles :
    /\ CanCast(h, s)
    /\ id[s] = NoId /\ IsActive(Cur, ptr[s])
    /\ Ptr_Cast(Cur, h, s).id[h] = GetCurID(Cur, ptr[s])
    /\ \E t \in Handles : live[t] /\ id[t] = GetCurID(Cur, ptr[s])

(***************************************************************************)
(* C24.  Memory is freed only by Delete() and DeleteArray(), on the        *)
(* address of the handle and after its record has been marked Deleted in   *)
(* the same operation; no construction, destruction, assignment or cast    *)
(* frees memory, even when the count of a record drops to 0.               *)
(***************************************************************************)
\* This step is a release through handle h that went through: the record of h
\* was not Deleted and now is, and its address was freed once.
ReleaseStep(h) ==
  /\ live[h] /\ id[h] # NoId
  /\ Delete(h) \/ DeleteArray(h)
  /\ Rec(id[h]).status # "DELETED"
  /\ Rec(id[h]).ptr = ptr[h]
  /\ id_info'[id[h] + 1].status = "DELETED"
  /\ freed' = [freed EXCEPT ![ptr[h]] = @ + 1]

C24_FreedOnlyByRelease ==
  [][ (Running' /\ freed' # freed) => \E h \in Handles : ReleaseStep(h) ]_vars

\* The last handle on a released record is gone: the count is 0 and the
\* address has been freed once, by the release.
C24_Witness ==
  /\ err = ""
  /\ \E i \in Ids :
       /\ Rec(i).count = 0 /\ Rec(i).status = "DELETED"
       /\ freed[Rec(i).ptr] = 1
       /\ Len(id_info) = 1

(***************************************************************************)
(* C25.  The shutdown audit always completes with its report and never     *)
(* aborts, whatever number of records are still Active when it runs.       *)
(***************************************************************************)
C25_AuditNeverAborts ==
  Running => PtrTracker_Destroy(Cur).err = ""

\* The audit does complete when no record is Active.
C25_AuditCompletesWithoutLeaks ==
  Running =>
    (PtrTracker_Destroy(Cur).err = "" <=> \A i \in Ids : ~RecActive(i))

(***************************************************************************)
(* C26.  After N addresses were registered and M < N of them released,     *)
(* whatever handles are still alive, the shutdown audit reports a total    *)
(* of N records and an outstanding figure of exactly N - M: the number of  *)
(* records whose status is Active.                                         *)
(***************************************************************************)
ActiveRecords == {i \in Ids : RecActive(i)}

C26_LeakReportFigures ==
  (Running /\ ActiveRecords # {}) =>
    LET R == PtrTracker_Destroy(Cur)
    IN  /\ R.err = ""
        /\ R.total = Len(id_info)
        /\ R.remain = Cardinality(ActiveRecords)

\* When the audit gets through, every record is Deleted, and the second
\* figure is the number of records that handles still refer to.
C26_ReportCountsReferenced ==
  Running =>
    LET R == PtrTracker_Destroy(Cur)
    IN  R.err = "" =>
          /\ ActiveRecords = {}
          /\ R.total = Len(id_info)
          /\ R.remain = Cardinality({i \in Ids : LiveWith(i) # {}})

(***************************************************************************)
(* C27.  The address-to-id mapping holds an entry for an address only      *)
(* while a record at that address is Active: after the record is Deleted   *)
(* and until the address is registered again, HasPtr(address) and          *)
(* IsActive(address) are both false; while a record at the address is      *)
(* Active, GetCurID(address) is the id of that record.                     *)
(***************************************************************************)
RecordsAt(a) == {i \in Ids : Rec(i).ptr = a}

LatestAt(a) == CHOOSE i \in RecordsAt(a) : \A j \in RecordsAt(a) : j <= i

\* The record registered last at address a is Deleted.
DeletedLast(a) == RecordsAt(a) # {} /\ ~RecActive(LatestAt(a))

C27_EntryOnlyWhileActive ==
  err = "" =>
    \A a \in Addr :
      /\ HasPtr(Cur, a) => \E i \in RecordsAt(a) : RecActive(i)
      /\ DeletedLast(a) => ~HasPtr(Cur, a) /\ ~IsActive(Cur, a)
      /\ \A i \in RecordsAt(a) : RecActive(i) => GetCurID(Cur, a) = i

\* C27 amended: the mapping has an entry for every address registered so far
\* and it names the record registered last there; IsActive is false from the
\* release of that record until the address is registered again (HasPtr stays
\* true), and while a record at the address is Active GetCurID is its id.
C27_EntryNamesLatestRecord ==
  err = "" =>
    \A a \in Addr :
      /\ HasPtr(Cur, a) <=> RecordsAt(a) # {}
      /\ HasPtr(Cur, a) => GetCurID(Cur, a) = LatestAt(a)
      /\ DeletedLast(a) => HasPtr(Cur, a) /\ ~IsActive(Cur, a)
      /\ \A i \in RecordsAt(a) :
           RecActive(i) => GetCurID(Cur, a) = i /\ IsActive(Cur, a)
      /\ ~HasPtr(Cur, Null)

\* An address registered twice and released twice: the mapping still holds
\* its entry, which names the second record.
C27_Witness ==
  /\ err = ""
  /\ \E a \in Addr :
       /\ Cardinality(RecordsAt(a)) = 2
       /\ DeletedLast(a)
       /\ HasPtr(Cur, a) /\ GetCurID(Cur, a) = 1

(***************************************************************************)
(* C28.  With the variant without tracking, no sequence of constructions,  *)
(* copies, moves, assignments, casts, releases and destructions of         *)
(* handles ever creates a record or changes the tracker, however many      *)
(* handles alias one address.                                              *)
(***************************************************************************)
C28_NoTrackLeavesTrackerAlone ==
  /\ notrack.id_info = << >>
  /\ notrack.ptr_id = << >>

\* In the build without tracking every handle holds one address, which has
\* been released once; the tracked build holds a record of it.
C28_Witness ==
  /\ err = ""
  /\ \E a \in Addr :
       /\ \A h \in Handles : live[h] /\ notrack.ptr[h] = a
       /\ notrack.freed[a] = 1
  /\ Len(id_info) >= 1
  /\ notrack.id_info = << >>

(***************************************************************************)
(* C29.  For every sequence of handle operations that raises no violation  *)
(* in the tracked variant, the same sequence on the variant without        *)
(* tracking leaves every handle with the same address, hence with the      *)
(* same IsNull, bool conversion and comparison results.                    *)
(***************************************************************************)
C29_SameAddresses ==
  err = "" => \A h \in Handles : live[h] => notrack.ptr[h] = ptr[h]

(***************************************************************************)
(* C30.  Hash() is the address of the handle shifted right by              *)
(* floor(log2(sizeof(T))) bits, for every pointee size sizeof(T) >= 1; it  *)
(* depends only on the address, not on the id or the tracking state, and   *)
(* is the same in both variants.                                           *)
(***************************************************************************)
\* floor(log2(x)) for x >= 1.
FloorLog2(x) == CHOOSE k \in 0..x : 2 ^ k <= x /\ x < 2 ^ (k + 1)

C30_HashShiftsByLogOfSize ==
  hash # << >> =>
    /\ hash.value = ptr[hash.h] \div (2 ^ FloorLog2(hash.size))
    /\ hash.notrack = hash.value

\* C30 amended: the shift is floor(log2(sizeof(T) + 1)).
C30_HashShiftsByLogOfSizePlusOne ==
  hash # << >> =>
    /\ hash.value = ptr[hash.h] \div (2 ^ FloorLog2(hash.size + 1))
    /\ hash.notrack = hash.value

\* Hash() of a tracked handle with a one-byte pointee drops the lowest bit
\* of an odd address.
C30_Witness ==
  /\ hash # << >>
  /\ hash.size = 1
  /\ id[hash.h] # NoId
  /\ ptr[hash.h] = 5
  /\ hash.value = 2

(***************************************************************************)
(* C31.  Array construction Ptr(addr, n, track), for every element count   *)
(* n: if addr is Active the handle attaches to that record and increments  *)
(* its count, leaving the array metadata unchanged; otherwise, if track is *)
(* set, a new Active array record with array_bytes = n * sizeof(T) and     *)
(* count 1 is created; otherwise the handle is untracked and the tracker   *)
(* is unchanged.                                                           *)
(***************************************************************************)
\* The element counts the array constructor is given: those of the arrays
\* and one whose byte size does not fit in a size_t.
ArrayCounts == ArrayLens \cup {WrapPos}

\* M is the current state with handle h attached to the Active record of a.
ArrayAttached(M, h, a) ==
  /\ M.err = ""
  /\ M.ptr = [ptr EXCEPT ![h] = a]
  /\ M.id = [id EXCEPT ![h] = GetCurID(Cur, a)]
  /\ Bumped(M, GetCurID(Cur, a))

\* M is the current state with handle h on a new array record of a.
ArrayRegistered(M, h, a, bytes) ==
  /\ M.err = ""
  /\ M.ptr = [ptr EXCEPT ![h] = a]
  /\ M.id = [id EXCEPT ![h] = Len(id_info)]
  /\ M.id_info = Append(id_info,
       [ptr |-> a, count |-> 1, status |-> "ARRAY", array_bytes |-> bytes])
  /\ HasPtr(M, a) /\ GetCurID(M, a) = Len(id_info)

\* M is the current state with the untracked handle h on a.
ArrayUntracked(M, h, a) ==
  /\ M.err = ""
  /\ M.ptr = [ptr EXCEPT ![h] = a]
  /\ M.id = [id EXCEPT ![h] = NoId]
  /\ M.id_info = id_info /\ M.ptr_id = ptr_id

\* C31 as stated.
C31_ArrayAliasOrRegister ==
  err = "" =>
    \A h \in Handles, a \in AddrOrNull, n \in ArrayLens, track \in BOOLEAN :
      IsFreeSlot(h) =>
        LET M == Ptr_RawArray(Cur, h, a, n, track)
        IN  IF IsActive(Cur, a) THEN ArrayAttached(M, h, a)
            ELSE IF track THEN ArrayRegistered(M, h, a, n * SizeofT)
            ELSE ArrayUntracked(M, h, a)

\* C31 amended: the handle attaches to the Active record of addr when the
\* byte size of that record is that of the n elements and is rejected when it
\* is not, as on every scalar record; a null addr with track set is rejected;
\* the byte size is n * sizeof(T) in size_t arithmetic.
C31_ArrayAliasOrRegisterSameSize ==
  err = "" =>
    \A h \in Handles, a \in AddrOrNull, n \in ArrayCounts, track \in BOOLEAN :
      IsFreeSlot(h) =>
        LET M == Ptr_RawArray(Cur, h, a, n, track)
            bytes == (n * SizeofT) % SizeT
        IN  IF IsActive(Cur, a)
              THEN IF Rec(GetCurID(Cur, a)).array_bytes = bytes
                     THEN ArrayAttached(M, h, a)
                     ELSE M.err # ""
            ELSE IF track
              THEN IF a = Null THEN M.err # ""
                   ELSE ArrayRegistered(M, h, a, bytes)
            ELSE ArrayUntracked(M, h, a)

\* An array construction can attach a second handle to an Active array
\* record, and an address is Active with a scalar record in another state.
C31_Witness ==
  /\ err = ""
  /\ \E h, g \in Handles, a \in Addr :
       /\ IsFreeSlot(h) /\ live[g] /\ ptr[g] = a /\ id[g] # NoId
       /\ Rec(id[g]).status = "ARRAY" /\ Rec(id[g]).array_bytes = SizeofT
       /\ Ptr_RawArray(Cur, h, a, 1, FALSE).id[h] = id[g]
       /\ Ptr_RawArray(Cur, h, a, 1, FALSE).id_info[id[g] + 1].count = 2

(***************************************************************************)
(* C32.  Construction is atomic with respect to the tracker: a             *)
(* construction that is rejected (a null address with tracking requested,  *)
(* or an array construction whose byte size disagrees with the Active      *)
(* record of the address) leaves the tracker as it was before the call:    *)
(* no record appended, no count changed, no address entry changed.         *)
(***************************************************************************)
\* The tracker in M, the state at the failed assert, is the current one.
TrackerUntouched(M) == M.id_info = id_info /\ M.ptr_id = ptr_id

C32_RejectedConstructionIsAtomic ==
  err = "" =>
    \A h \in Handles, a \in AddrOrNull, track \in BOOLEAN :
      IsFreeSlot(h) =>
        /\ Ptr_Raw(Cur, h, a, track).err # "" =>
             TrackerUntouched(Ptr_Raw(Cur, h, a, track))
        /\ \A n \in ArrayLens :
             Ptr_RawArray(Cur, h, a, n, track).err # "" =>
               TrackerUntouched(Ptr_RawArray(Cur, h, a, n, track))

\* The rejections by PtrTracker::New, of a null address, are atomic.
C32_RejectedRegistrationIsAtomic ==
  err = "" =>
    \A h \in Handles, track \in BOOLEAN :
      IsFreeSlot(h) =>
        /\ Ptr_Raw(Cur, h, Null, track).err # "" =>
             TrackerUntouched(Ptr_Raw(Cur, h, Null, track))
        /\ \A n \in ArrayLens :
             Ptr_RawArray(Cur, h, Null, n, track).err # "" =>
               TrackerUntouched(Ptr_RawArray(Cur, h, Null, n, track))

(***************************************************************************)
(* C33.  Marking a record Deleted changes only its status: its address,    *)
(* its reference count, its array flag and its array byte size read the    *)
(* same afterwards (IsArrayID of a deleted array record is still true),    *)
(* and no other record changes.                                            *)
(***************************************************************************)
\* What the accessors of the tracker read of record i in M, status aside.
ReadsOf(M, i) ==
  [ptr   |-> M.id_info[i + 1].ptr,
   count |-> GetIDCount(M, i),
   array |-> IsArrayID(M, i),
   bytes |-> GetArrayBytes(M, i)]

OthersKept(M, i) ==
  /\ Len(M.id_info) = Len(id_info)
  /\ \A j \in Ids \ {i} : M.id_info[j + 1] = Rec(j)

C33_MarkDeletedChangesOnlyStatus ==
  err = "" =>
    \A i \in Ids :
      RecActive(i) =>
        /\ MarkDeleted(Cur, i).err = ""
        /\ IsDeleted(MarkDeleted(Cur, i), i)
        /\ ReadsOf(MarkDeleted(Cur, i), i) = ReadsOf(Cur, i)
        /\ OthersKept(MarkDeleted(Cur, i), i)

\* Without the array flag, the rest of the statement: address, count and
\* byte size are kept, no other record changes, the address entry is kept.
C33_MarkDeletedKeepsCountAndBytes ==
  err = "" =>
    \A i \in Ids :
      RecActive(i) =>
        /\ MarkDeleted(Cur, i).err = ""
        /\ IsDeleted(MarkDeleted(Cur, i), i)
        /\ ~IsArrayID(MarkDeleted(Cur, i), i)
        /\ [ReadsOf(MarkDeleted(Cur, i), i) EXCEPT !.array = TRUE]
             = [ReadsOf(Cur, i) EXCEPT !.array = TRUE]
        /\ OthersKept(MarkDeleted(Cur, i), i)
        /\ MarkDeleted(Cur, i).ptr_id = ptr_id

(***************************************************************************)
(* C34.  Raw assignment h = addr first decrements the record h is on (if   *)
(* h is tracked), then attaches h to the Active record of addr and         *)
(* increments it if there is one, and otherwise leaves h untracked with    *)
(* address addr; it never creates a record.  Hence assigning to h the      *)
(* address it already holds is rejected when h is the only handle of its   *)
(* Active record.                                                          *)
(***************************************************************************)
\* The records after one reference to record i is dropped (none for NoId).
Dropped(i) ==
  IF i = NoId THEN id_info ELSE [id_info EXCEPT ![i + 1].count = @ - 1]

\* Dropping a reference to record i is refused: the last one of an Active record.
LastOwned(i) == i # NoId /\ RecActive(i) /\ Rec(i).count <= 1

AssignedRaw(M, h, a) ==
  /\ M.err = ""
  /\ M.ptr = [ptr EXCEPT ![h] = a]
  /\ M.ptr_id = ptr_id
  /\ IF a \in DOMAIN ptr_id /\ RecActive(ptr_id[a])
       THEN /\ M.id = [id EXCEPT ![h] = ptr_id[a]]
            /\ M.id_info = [Dropped(id[h]) EXCEPT ![ptr_id[a] + 1].count = @ + 1]
       ELSE /\ M.id = [id EXCEPT ![h] = NoId]
            /\ M.id_info = Dropped(id[h])

C34_RawAssignDecrementsThenAttaches ==
  err = "" =>
    \A h \in Handles, a \in AddrOrNull :
      live[h] =>
        /\ LastOwned(id[h]) => Ptr_RawAssign(Cur, h, a).err # ""
        /\ ~LastOwned(id[h]) => AssignedRaw(Ptr_RawAssign(Cur, h, a), h, a)
        /\ (a = ptr[h] /\ LastOwned(id[h])) => Ptr_RawAssign(Cur, h, a).err # ""

\* A handle on a Deleted record whose address has an Active record again is
\* retargeted by assigning its own address, next to a sole owner that is
\* refused and an untracked handle.
C34_Witness ==
  /\ err = ""
  /\ \E h, g \in Handles :
       /\ live[h] /\ id[h] # NoId /\ ~RecActive(id[h])
       /\ Ptr_RawAssign(Cur, h, ptr[h]).err = ""
       /\ Ptr_RawAssign(Cur, h, ptr[h]).id[h] \notin {id[h], NoId}
       /\ live[g] /\ LastOwned(id[g])
       /\ Ptr_RawAssign(Cur, g, ptr[g]).err # ""

(***************************************************************************)
(* C35.  IncID and DecID called with the id of an untracked handle leave   *)
(* the tracker unchanged and never fail, and IsDeleted of that id is       *)
(* false; hence copying, moving and destroying an untracked handle         *)
(* changes no record.                                                      *)
(***************************************************************************)
\* M is the current tracker, and no assert has failed on the way to it.
NoRecordChanged(M) == M.err = "" /\ M.id_info = id_info /\ M.ptr_id = ptr_id

C35_UntrackedIdIsIgnored ==
  err = "" =>
    /\ IncID(Cur, NoId) = Cur
    /\ DecID(Cur, NoId) = Cur
    /\ ~IsDeleted(Cur, NoId)
    /\ \A s \in Handles :
         (live[s] /\ id[s] = NoId) =>
           /\ NoRecordChanged(Ptr_Destroy(Cur, s))
           /\ \A h \in Handles :
                IsFreeSlot(h) =>
                  /\ NoRecordChanged(Ptr_Copy(Cur, h, s))
                  /\ Ptr_Copy(Cur, h, s).id[h] = NoId
                  /\ NoRecordChanged(Ptr_Move(Cur, h, s))
                  /\ Ptr_Move(Cur, h, s).id[h] = NoId
           /\ \A h \in Handles :
                (live[h] /\ id[h] = NoId) =>
                  /\ NoRecordChanged(Ptr_CopyAssign(Cur, h, s))
                  /\ NoRecordChanged(Ptr_MoveAssign(Cur, h, s))

\* An untracked handle on a non-null address next to records, one of them
\* deleted, and a free slot to copy or move it into.
C35_Witness ==
  /\ err = ""
  /\ \E s, h \in Handles :
       /\ live[s] /\ id[s] = NoId /\ ptr[s] # Null
       /\ IsFreeSlot(h)
       /\ \E i \in Ids : ~RecActive(i) /\ Rec(i).ptr = ptr[s]

(***************************************************************************)
(* C36.  h.New() and h.NewArray(n) first decrement the record h is on (if  *)
(* h is tracked; the call is rejected when h is the only handle of an      *)
(* Active record), then register a fresh record whose id is the former     *)
(* number of records, Active with count 1 (an array record of              *)
(* n * sizeof(T) bytes for NewArray); h ends with the new address and      *)
(* that id, and the status of the old record is not changed.               *)
(***************************************************************************)
\* M is the current state after h dropped its record and took the fresh
\* record rec at the end of id_info, for the address a.
Reallocated(M, h, a, rec) ==
  /\ M.err = ""
  /\ M.ptr = [ptr EXCEPT ![h] = a]
  /\ M.id = [id EXCEPT ![h] = Len(id_info)]
  /\ M.id_info = Append(Dropped(id[h]), rec)
  /\ M.ptr_id = [x \in DOMAIN ptr_id \cup {a} |->
                   IF x = a THEN Len(id_info) ELSE ptr_id[x]]

ScalarRecord(a) ==
  [ptr |-> a, count |-> 1, status |-> "ACTIVE", array_bytes |-> 0]

ArrayRecord(a, n) ==
  [ptr |-> a, count |-> 1, status |-> "ARRAY",
   array_bytes |-> (n * SizeofT) % SizeT]

\* The blocks malloc can return: their address has no Active record.
FreshAddr == {a \in Addr : ~IsActive(Cur, a)}

C36_ReallocationRegistersFresh ==
  err = "" =>
    \A h \in Handles, a \in FreshAddr :
      live[h] =>
        IF LastOwned(id[h])
          THEN /\ Ptr_New(Cur, h, a).err # ""
               /\ \A n \in ArrayLens : \A intact \in PlacementOutcomes(n) :
                    Ptr_NewArray(Cur, h, a, n, intact).err # ""
        ELSE /\ Reallocated(Ptr_New(Cur, h, a), h, a, ScalarRecord(a))
             /\ \A n \in ArrayLens : \A intact \in PlacementOutcomes(n) :
                  Reallocated(Ptr_NewArray(Cur, h, a, n, intact), h, a,
                              ArrayRecord(a, n))

\* The statement for New, and for NewArray with every element constructed
\* inside the block.
C36_ReallocationInsideBlock ==
  err = "" =>
    \A h \in Handles, a \in FreshAddr :
      live[h] =>
        IF LastOwned(id[h])
          THEN /\ Ptr_New(Cur, h, a).err # ""
               /\ \A n \in ArrayLens :
                    Ptr_NewArray(Cur, h, a, n, TRUE).err # ""
        ELSE /\ Reallocated(Ptr_New(Cur, h, a), h, a, ScalarRecord(a))
             /\ \A n \in ArrayLens :
                  ~Overruns(n) =>
                    Reallocated(Ptr_NewArray(Cur, h, a, n, TRUE), h, a,
                                ArrayRecord(a, n))

\* A handle on a Deleted record and an untracked one that can reallocate,
\* after a NewArray of two elements that went on unharmed.
C36_InsideBlockWitness ==
  /\ err = ""
  /\ \E h, g \in Handles :
       /\ live[h] /\ id[h] # NoId /\ ~RecActive(id[h]) /\ ptr[h] \in FreshAddr
       /\ live[g] /\ id[g] = NoId
  /\ \E i \in Ids : Rec(i).array_bytes = (2 * SizeofT) % SizeT

(***************************************************************************)
(* C37.  In every reachable state every Active record has a reference      *)
(* count of at least 1: a count of 0 occurs only on records that are       *)
(* already Deleted.                                                        *)
(***************************************************************************)
C37_ActiveRecordsAreReferenced ==
  \A i \in Ids :
    /\ RecActive(i) => Rec(i).count >= 1
    /\ Rec(i).count = 0 => Rec(i).status = "DELETED"

\* An Active record held once next to a Deleted record that no handle holds
\* any more, and an untracked handle.
C37_Witness ==
  /\ err = ""
  /\ \E i \in Ids : Rec(i).status = "DELETED" /\ Rec(i).count = 0
  /\ \E i \in Ids : RecActive(i) /\ Rec(i).count = 1
  /\ \E h \in Handles : live[h] /\ id[h] = NoId

(***************************************************************************)
(* C38.  Handles and records agree in every reachable state of the build   *)
(* with EMP_TRACK_MEM: every live handle with a tracked id has an id       *)
(* below the number of records, a non-null address, and the address its    *)
(* record stores; and if that record is Active, the id the tracker gives   *)
(* for the address is the handle's id.                                     *)
(***************************************************************************)
C38_HandlesAgreeWithRecords ==
  \A h \in Handles :
    (live[h] /\ id[h] # NoId) =>
      /\ id[h] \in 0..(GetNumIDs(Cur) - 1)
      /\ ptr[h] # Null
      /\ ptr[h] = Rec(id[h]).ptr
      /\ RecActive(id[h]) => (HasPtr(Cur, ptr[h]) /\ GetCurID(Cur, ptr[h]) = id[h])

\* Two handles on the same address: one on its Deleted record, the other on
\* the Active record that was registered for the address afterwards.
C38_Witness ==
  /\ err = ""
  /\ \E h, g \in Handles :
       /\ live[h] /\ id[h] # NoId /\ ~RecActive(id[h])
       /\ live[g] /\ id[g] # NoId /\ RecActive(id[g])
       /\ ptr[h] = ptr[g] /\ id[h] # id[g]
       /\ GetCurID(Cur, ptr[h]) = id[g]

====
